---------------------------- MODULE Spec2Model ----------------------------
(***************************************************************************)
(* Two independent programs of the repository:                             *)
(*   cpp_guide_ff8075.cpp  compile-time dimensional analysis (Unit,        *)
(*                         Quantity and its operators)          -> Spec    *)
(*   cpp_guide_a9aafb.cpp  dynamic plugin loader (main)     -> LoaderSpec  *)
(*                                                                         *)
(* Units program.  A std::ratio<N, D> is modelled by the pair <<N, D>> of  *)
(* its template arguments: two ratio types are the same type iff the pairs *)
(* are equal.  A Unit is the record of its four exponent types and a       *)
(* Quantity a unit together with a scalar.  The state is the list of       *)
(* quantities a translation unit has declared so far (each one either      *)
(* constructed from a raw scalar or initialised from an operator           *)
(* expression over earlier ones) and the diagnostic of the expression the  *)
(* compiler rejected, if any.                                              *)
(*                                                                         *)
(* ValueType is double.  A scalar is modelled exactly: sign, numerator and *)
(* denominator, with signed zeros, infinities (d = 0, n = 1) and NaN       *)
(* (d = 0, n = 0) as IEEE-754 arithmetic produces them; rounding is not    *)
(* modelled.                                                               *)
(***************************************************************************)
EXTENDS Integers, Sequences, FiniteSets, TLC

VARIABLES store, diag,
          pc, libLoadable, exports, nameText, addImpl, closeWorks,
          pluginHandle, handleOpen, getPluginName, performAddition,
          pluginName, result, exitStatus, events, cerr

unitVars == <<store, diag>>
envVars == <<libLoadable, exports, nameText, addImpl, closeWorks>>
loaderVars == <<pc, pluginHandle, handleOpen, getPluginName, performAddition,
                pluginName, result, exitStatus, events, cerr>>
vars == <<unitVars, envVars, loaderVars>>

\* Largest number of quantities one translation unit declares.
MaxQuantities == 3

-----------------------------------------------------------------------------
(* Integer helpers *)

Abs(x) == IF x < 0 THEN -x ELSE x

Sign(x) == IF x < 0 THEN -1 ELSE IF x = 0 THEN 0 ELSE 1

RECURSIVE Gcd(_, _)
Gcd(a, b) == IF b = 0 THEN a ELSE Gcd(b, a % b)

-----------------------------------------------------------------------------
(* std::ratio<N, D> and the ratio arithmetic the operators use *)

\* std::ratio<N, D>::num
RatioNum(r) == (Sign(r[1]) * Sign(r[2]) * Abs(r[1])) \div Gcd(Abs(r[1]), Abs(r[2]))

\* std::ratio<N, D>::den
RatioDen(r) == Abs(r[2]) \div Gcd(Abs(r[1]), Abs(r[2]))

\* std::ratio<N, D>::type
RatioType(r) == <<RatioNum(r), RatioDen(r)>>

\* std::ratio_add<R1, R2>::type
RatioAdd(r1, r2) ==
    RatioType(<<RatioNum(r1) * RatioDen(r2) + RatioNum(r2) * RatioDen(r1),
                RatioDen(r1) * RatioDen(r2)>>)

\* Variant: the operands of the subtraction exchanged.
RatioSubtractReversed(r1, r2) ==
    RatioType(<<RatioNum(r2) * RatioDen(r1) - RatioNum(r1) * RatioDen(r2),
                RatioDen(r1) * RatioDen(r2)>>)

\* std::ratio_subtract<R1, R2>::type
RatioSubtract(r1, r2) ==
    RatioType(<<RatioNum(r1) * RatioDen(r2) - RatioNum(r2) * RatioDen(r1),
                RatioDen(r1) * RatioDen(r2)>>)

\* template <int N> using Exponent = std::ratio<N, 1>
Exponent(N) == <<N, 1>>

\* template <LengthExp, MassExp, TimeExp, CurrentExp> struct Unit
Unit(LengthExp, MassExp, TimeExp, CurrentExp) ==
    [LengthRatio |-> LengthExp, MassRatio |-> MassExp,
     TimeRatio |-> TimeExp, CurrentRatio |-> CurrentExp]

Axes == {"LengthRatio", "MassRatio", "TimeRatio", "CurrentRatio"}

Meter == Unit(Exponent(1), Exponent(0), Exponent(0), Exponent(0))
Kilogram == Unit(Exponent(0), Exponent(1), Exponent(0), Exponent(0))
Second == Unit(Exponent(0), Exponent(0), Exponent(1), Exponent(0))
Ampere == Unit(Exponent(0), Exponent(0), Exponent(0), Exponent(1))
Velocity == Unit(Exponent(1), Exponent(0), Exponent(-1), Exponent(0))
Acceleration == Unit(Exponent(1), Exponent(0), Exponent(-2), Exponent(0))
Area == Unit(Exponent(2), Exponent(0), Exponent(0), Exponent(0))
Force == Unit(Exponent(1), Exponent(1), Exponent(-2), Exponent(0))
Dimensionless == Unit(Exponent(0), Exponent(0), Exponent(0), Exponent(0))

-----------------------------------------------------------------------------
(* ValueType = double: the built-in +, -, *, / *)

Fin(s, n, d) == [s |-> s, n |-> n \div Gcd(n, d), d |-> d \div Gcd(n, d)]
Lit(n, d) == Fin(IF n < 0 THEN -1 ELSE 1, Abs(n), d)
NaN == [s |-> 1, n |-> 0, d |-> 0]
Inf(s) == [s |-> s, n |-> 1, d |-> 0]
Zero(s) == [s |-> s, n |-> 0, d |-> 1]

IsNaN(x) == x.d = 0 /\ x.n = 0
IsInf(x) == x.d = 0 /\ x.n = 1
IsZero(x) == x.d # 0 /\ x.n = 0
IsFinite(x) == x.d # 0

SNeg(x) == IF IsNaN(x) THEN x ELSE [x EXCEPT !.s = -x.s]

SRecip(x) ==
    IF IsNaN(x) THEN NaN
    ELSE IF IsZero(x) THEN Inf(x.s)
    ELSE IF IsInf(x) THEN Zero(x.s)
    ELSE [s |-> x.s, n |-> x.d, d |-> x.n]

\* x + y on doubles
SAdd(x, y) ==
    IF IsNaN(x) \/ IsNaN(y) THEN NaN
    ELSE IF IsInf(x) /\ IsInf(y) THEN (IF x.s = y.s THEN x ELSE NaN)
    ELSE IF IsInf(x) THEN x
    ELSE IF IsInf(y) THEN y
    ELSE LET num == x.s * x.n * y.d + y.s * y.n * x.d
         IN  IF num = 0
             THEN Zero(IF IsZero(x) /\ IsZero(y) /\ x.s = -1 /\ y.s = -1
                       THEN -1 ELSE 1)
             ELSE Fin(Sign(num), Abs(num), x.d * y.d)

\* x - y on doubles
SSub(x, y) == SAdd(x, SNeg(y))

\* x * y on doubles
SMul(x, y) ==
    IF IsNaN(x) \/ IsNaN(y) THEN NaN
    ELSE IF (IsInf(x) /\ IsZero(y)) \/ (IsZero(x) /\ IsInf(y)) THEN NaN
    ELSE IF IsInf(x) \/ IsInf(y) THEN Inf(x.s * y.s)
    ELSE IF IsZero(x) \/ IsZero(y) THEN Zero(x.s * y.s)
    ELSE Fin(x.s * y.s, x.n * y.n, x.d * y.d)

\* x / y on doubles
SDiv(x, y) == SMul(x, SRecip(y))

-----------------------------------------------------------------------------
(* Quantity<UnitType, ValueType> and its operators *)

\* explicit Quantity(ValueType val) : value(val) {}
Quantity(UnitType, val) == [unit |-> UnitType, value |-> val]

\* Quantity<UnitType, ValueType> operator+(const Quantity<UnitType, ValueType>&) const
OperatorPlus(a, b) == Quantity(a.unit, SAdd(a.value, b.value))

\* Quantity<UnitType, ValueType> operator-(const Quantity<UnitType, ValueType>&) const
OperatorMinus(a, b) == Quantity(a.unit, SSub(a.value, b.value))

\* Variant: the time exponent of the right operand left out of the sum.
OperatorMulDropTime(a, b) ==
    Quantity(Unit(RatioAdd(a.unit.LengthRatio, b.unit.LengthRatio),
                  RatioAdd(a.unit.MassRatio, b.unit.MassRatio),
                  a.unit.TimeRatio,
                  RatioAdd(a.unit.CurrentRatio, b.unit.CurrentRatio)),
             SMul(a.value, b.value))

\* template <typename OtherUnitType> auto operator*(const Quantity<OtherUnitType, ValueType>&) const
OperatorMul(a, b) ==
    Quantity(Unit(RatioAdd(a.unit.LengthRatio, b.unit.LengthRatio),
                  RatioAdd(a.unit.MassRatio, b.unit.MassRatio),
                  RatioAdd(a.unit.TimeRatio, b.unit.TimeRatio),
                  RatioAdd(a.unit.CurrentRatio, b.unit.CurrentRatio)),
             SMul(a.value, b.value))

\* template <typename OtherUnitType> auto operator/(const Quantity<OtherUnitType, ValueType>&) const
OperatorDiv(a, b) ==
    Quantity(Unit(RatioSubtract(a.unit.LengthRatio, b.unit.LengthRatio),
                  RatioSubtract(a.unit.MassRatio, b.unit.MassRatio),
                  RatioSubtract(a.unit.TimeRatio, b.unit.TimeRatio),
                  RatioSubtract(a.unit.CurrentRatio, b.unit.CurrentRatio)),
             SDiv(a.value, b.value))

\* The operator functions struct Quantity declares.
DeclaredOperators == {"+", "-", "*", "/"}

\* The comparison expressions a program may write on two quantities.
ComparisonOps == {"==", "<"}

\* Variant: operator+ / operator- templated on OtherUnitType like operator*.
ViableIgnoringUnit(op, a, b) == op \in DeclaredOperators

\* Overload resolution of `a op b`: a member operator named op must exist, and
\* operator+ / operator- take const Quantity<UnitType, ValueType>&, the very
\* type of *this (the only constructor is explicit, from a raw ValueType);
\* operator* / operator/ deduce OtherUnitType from any Quantity.
Viable(op, a, b) ==
    /\ op \in DeclaredOperators
    /\ op \in {"+", "-"} => a.unit = b.unit

Apply(op, a, b) ==
    CASE op = "+" -> OperatorPlus(a, b)
      [] op = "-" -> OperatorMinus(a, b)
      [] op = "*" -> OperatorMul(a, b)
      [] op = "/" -> OperatorDiv(a, b)

-----------------------------------------------------------------------------
(* The translation unit: declarations `Quantity<U> x(v);` and                *)
(* `auto x = a op b;` in sequence, until an expression is ill-formed.         *)

\* One declared variable: the quantity and the initialiser it came from.
Decl(q, op, i, j) ==
    [unit |-> q.unit, value |-> q.value, op |-> op, lhs |-> i, rhs |-> j]

NoDiag == [op |-> "none", lhs |-> 0, rhs |-> 0]

\* The quantities a program constructs directly: those of main (with scalars
\* kept small) and two whose exponents are written unreduced or with a
\* negative denominator.
Fixtures ==
    { Quantity(Meter, Lit(10, 1)),
      Quantity(Meter, Lit(5, 1)),
      Quantity(Second, Lit(2, 1)),
      Quantity(Kilogram, Lit(7, 1)),
      Quantity(Acceleration, Lit(3, 1)),
      Quantity(Dimensionless, Lit(1, 2)),
      Quantity(Unit(<<2, 4>>, Exponent(0), Exponent(0), Exponent(0)), Lit(4, 1)),
      Quantity(Unit(Exponent(0), Exponent(0), <<1, -2>>, Exponent(0)), Lit(-3, 1)) }

\* Variant: a compound assignment that also writes the result into *this.
StoreResultCompound(st, i, j, q, op) ==
    Append([st EXCEPT ![i].value = q.value], Decl(q, op, i, j))

\* The operators are const member functions taking a const reference and
\* returning a new Quantity by value: the operands stay as they are.
StoreResult(st, i, j, q, op) == Append(st, Decl(q, op, i, j))

UInit ==
    /\ store = <<>>
    /\ diag = NoDiag

Construct(q) ==
    /\ diag = NoDiag
    /\ Len(store) < MaxQuantities
    /\ store' = Append(store, Decl(q, "ctor", 0, 0))
    /\ UNCHANGED <<diag, envVars, loaderVars>>

Accept(op, i, j) ==
    /\ diag = NoDiag
    /\ Viable(op, store[i], store[j])
    /\ Len(store) < MaxQuantities
    /\ store' = StoreResult(store, i, j, Apply(op, store[i], store[j]), op)
    /\ UNCHANGED <<diag, envVars, loaderVars>>

\* The ill-formed declaration `auto x = a op b;`: the build stops there.
Reject(op, i, j) ==
    /\ diag = NoDiag
    /\ ~Viable(op, store[i], store[j])
    /\ Len(store) < MaxQuantities
    /\ diag' = [op |-> op, lhs |-> i, rhs |-> j]
    /\ UNCHANGED <<store, envVars, loaderVars>>

Add(i, j) == Accept("+", i, j) \/ Reject("+", i, j)

Sub(i, j) == Accept("-", i, j) \/ Reject("-", i, j)

Mul(i, j) == Accept("*", i, j)

Div(i, j) == Accept("/", i, j)

Compare(op, i, j) == Reject(op, i, j)

Next ==
    \/ \E q \in Fixtures : Construct(q)
    \/ \E i, j \in DOMAIN store : Add(i, j)
    \/ \E i, j \in DOMAIN store : Sub(i, j)
    \/ \E i, j \in DOMAIN store : Mul(i, j)
    \/ \E i, j \in DOMAIN store : Div(i, j)
    \/ \E i, j \in DOMAIN store : \E op \in ComparisonOps : Compare(op, i, j)

-----------------------------------------------------------------------------
(* The plugin loader: main of cpp_guide_a9aafb.cpp (the dlopen branch; the   *)
(* LoadLibrary branch has the same shape).  The plugin file is the input:     *)
(* whether it loads, which symbols it exports, what its functions return and *)
(* whether the final release succeeds.                                       *)

Symbols == {"GetPluginName", "PerformAddition"}

PluginNames == {"Basic Cpp Plugin v1.0", "Another Plugin"}

\* What the plugin's PerformAddition computes: the sum, or anything else.
AddImpls == {"sum", "zero"}

NULL == "NULL"

\* dlsym(pluginHandle, name)
Dlsym(name) == IF name \in exports THEN name ELSE NULL

Event(kind, sym, args) == <<kind, sym, args>>

\* dlclose(pluginHandle): the reference is dropped unless the call fails.
Dlclose ==
    /\ handleOpen' = (handleOpen /\ ~closeWorks)
    /\ events' = Append(events, Event("dlclose", "", <<>>))

LStart ==
    /\ pc = "start"
    /\ pluginHandle = NULL
    /\ handleOpen = FALSE
    /\ getPluginName = NULL
    /\ performAddition = NULL
    /\ pluginName = ""
    /\ result = 0
    /\ exitStatus = -1
    /\ events = <<>>
    /\ cerr = <<>>

\* void* pluginHandle = dlopen(...); if (!pluginHandle) { ...; return 1; }
LoadLibrary ==
    /\ pc = "start"
    /\ IF libLoadable
       THEN /\ pluginHandle' = "lib"
            /\ handleOpen' = TRUE
            /\ pc' = "loaded"
            /\ UNCHANGED <<cerr, exitStatus>>
       ELSE /\ cerr' = Append(cerr, "Error: Could not load plugin library")
            /\ exitStatus' = 1
            /\ pc' = "exit"
            /\ UNCHANGED <<pluginHandle, handleOpen>>
    /\ events' = Append(events, Event("dlopen", "", <<>>))
    /\ UNCHANGED <<getPluginName, performAddition, pluginName, result>>
    /\ UNCHANGED <<envVars, unitVars>>

\* Variant: the GetPluginName error path returns without dlclose.
ResolveGetPluginNameLeak ==
    /\ pc = "loaded"
    /\ getPluginName' = Dlsym("GetPluginName")
    /\ IF getPluginName' = NULL
       THEN /\ cerr' = Append(cerr, "Error: Could not find function 'GetPluginName'")
            /\ events' = Append(events, Event("dlsym", "GetPluginName", <<>>))
            /\ exitStatus' = 1
            /\ pc' = "exit"
            /\ UNCHANGED handleOpen
       ELSE /\ events' = Append(events, Event("dlsym", "GetPluginName", <<>>))
            /\ pc' = "have_name"
            /\ UNCHANGED <<cerr, exitStatus, handleOpen>>
    /\ UNCHANGED <<pluginHandle, performAddition, pluginName, result>>
    /\ UNCHANGED <<envVars, unitVars>>

\* getPluginName = dlsym(...); if (!getPluginName) { ...; dlclose; return 1; }
ResolveGetPluginName ==
    /\ pc = "loaded"
    /\ getPluginName' = Dlsym("GetPluginName")
    /\ IF getPluginName' = NULL
       THEN /\ cerr' = Append(cerr, "Error: Could not find function 'GetPluginName'")
            /\ handleOpen' = (handleOpen /\ ~closeWorks)
            /\ events' = events \o <<Event("dlsym", "GetPluginName", <<>>),
                                     Event("dlclose", "", <<>>)>>
            /\ exitStatus' = 1
            /\ pc' = "exit"
       ELSE /\ events' = Append(events, Event("dlsym", "GetPluginName", <<>>))
            /\ pc' = "have_name"
            /\ UNCHANGED <<cerr, exitStatus, handleOpen>>
    /\ UNCHANGED <<pluginHandle, performAddition, pluginName, result>>
    /\ UNCHANGED <<envVars, unitVars>>

\* Variant: the null check of performAddition left out.
ResolvePerformAdditionUnchecked ==
    /\ pc = "have_name"
    /\ performAddition' = Dlsym("PerformAddition")
    /\ events' = Append(events, Event("dlsym", "PerformAddition", <<>>))
    /\ pc' = "have_both"
    /\ UNCHANGED <<cerr, exitStatus, handleOpen>>
    /\ UNCHANGED <<pluginHandle, getPluginName, pluginName, result>>
    /\ UNCHANGED <<envVars, unitVars>>

\* performAddition = dlsym(...); if (!performAddition) { ...; dlclose; return 1; }
ResolvePerformAddition ==
    /\ pc = "have_name"
    /\ performAddition' = Dlsym("PerformAddition")
    /\ IF performAddition' = NULL
       THEN /\ cerr' = Append(cerr, "Error: Could not find function 'PerformAddition'")
            /\ handleOpen' = (handleOpen /\ ~closeWorks)
            /\ events' = events \o <<Event("dlsym", "PerformAddition", <<>>),
                                     Event("dlclose", "", <<>>)>>
            /\ exitStatus' = 1
            /\ pc' = "exit"
       ELSE /\ events' = Append(events, Event("dlsym", "PerformAddition", <<>>))
            /\ pc' = "have_both"
            /\ UNCHANGED <<cerr, exitStatus, handleOpen>>
    /\ UNCHANGED <<pluginHandle, getPluginName, pluginName, result>>
    /\ UNCHANGED <<envVars, unitVars>>

\* const char* pluginName = getPluginName();
CallGetPluginName ==
    /\ pc = "have_both"
    /\ pluginName' = nameText
    /\ events' = Append(events, Event("call", "GetPluginName", <<>>))
    /\ pc' = "named"
    /\ UNCHANGED <<pluginHandle, handleOpen, getPluginName, performAddition,
                   result, exitStatus, cerr>>
    /\ UNCHANGED <<envVars, unitVars>>

\* int result = performAddition(10, 25);
CallPerformAddition ==
    /\ pc = "named"
    /\ result' = (IF addImpl = "sum" THEN 10 + 25 ELSE 0)
    /\ events' = Append(events, Event("call", "PerformAddition", <<10, 25>>))
    /\ pc' = "added"
    /\ UNCHANGED <<pluginHandle, handleOpen, getPluginName, performAddition,
                   pluginName, exitStatus, cerr>>
    /\ UNCHANGED <<envVars, unitVars>>

\* Variant: a failing dlclose turned into exit status 1.
UnloadLibraryFailOnWarning ==
    /\ pc = "added"
    /\ Dlclose
    /\ cerr' = IF closeWorks THEN cerr
               ELSE Append(cerr, "Warning: Could not close plugin library")
    /\ exitStatus' = (IF closeWorks THEN 0 ELSE 1)
    /\ pc' = "exit"
    /\ UNCHANGED <<pluginHandle, getPluginName, performAddition, pluginName, result>>
    /\ UNCHANGED <<envVars, unitVars>>

\* if (dlclose(pluginHandle) != 0) { warning } ...; return 0;
UnloadLibrary ==
    /\ pc = "added"
    /\ Dlclose
    /\ cerr' = IF closeWorks THEN cerr
               ELSE Append(cerr, "Warning: Could not close plugin library")
    /\ exitStatus' = 0
    /\ pc' = "exit"
    /\ UNCHANGED <<pluginHandle, getPluginName, performAddition, pluginName, result>>
    /\ UNCHANGED <<envVars, unitVars>>



LoaderNext ==
    \/ LoadLibrary
    \/ ResolveGetPluginName
    \/ ResolvePerformAddition
    \/ CallGetPluginName
    \/ CallPerformAddition
    \/ UnloadLibrary

-----------------------------------------------------------------------------
(* Specifications *)

\* The units program alone; the loader has not been started.
Init ==
    /\ UInit
    /\ libLoadable = TRUE
    /\ exports = Symbols
    /\ nameText = "Basic Cpp Plugin v1.0"
    /\ addImpl = "sum"
    /\ closeWorks = TRUE
    /\ LStart

Spec == Init /\ [][Next]_vars

\* The loader alone, over every plugin file.
LoaderInit ==
    /\ UInit
    /\ libLoadable \in BOOLEAN
    /\ exports \in SUBSET Symbols
    /\ nameText \in PluginNames
    /\ addImpl \in AddImpls
    /\ closeWorks \in BOOLEAN
    /\ LStart

LoaderSpec == LoaderInit /\ [][LoaderNext]_vars

-----------------------------------------------------------------------------
(* Vocabulary of the properties: mathematical equality of exponents and of   *)
(* scalars, stated by cross-multiplication on the written numerators and    *)
(* denominators, independently of how the code reduces them.                *)

DimEqual(u1, u2) == \A ax \in Axes : u1[ax][1] * u2[ax][2] = u2[ax][1] * u1[ax][2]

Canonical(r) == r[2] > 0 /\ Gcd(Abs(r[1]), r[2]) = 1

IsSum(e, x, y) == e[1] * (x[2] * y[2]) = e[2] * (x[1] * y[2] + y[1] * x[2])

IsDifference(e, x, y) == e[1] * (x[2] * y[2]) = e[2] * (x[1] * y[2] - y[1] * x[2])

Val(x) == x.s * x.n

BothFinite(a, b) == IsFinite(a.value) /\ IsFinite(b.value)

ValueIsSum(r, a, b) ==
    /\ IsFinite(r.value)
    /\ Val(r.value) * (a.value.d * b.value.d)
         = (Val(a.value) * b.value.d + Val(b.value) * a.value.d) * r.value.d

ValueIsDifference(r, a, b) ==
    /\ IsFinite(r.value)
    /\ Val(r.value) * (a.value.d * b.value.d)
         = (Val(a.value) * b.value.d - Val(b.value) * a.value.d) * r.value.d

ValueIsProduct(r, a, b) ==
    /\ IsFinite(r.value)
    /\ Val(r.value) * (a.value.d * b.value.d) = (Val(a.value) * Val(b.value)) * r.value.d

\* r = a / b: r * b = a for a nonzero divisor; a division by zero gives what
\* the scalar type gives (an infinity of the product sign, or NaN for 0/0).
ValueIsQuotient(r, a, b) ==
    IF IsZero(b.value)
    THEN IF IsZero(a.value) THEN IsNaN(r.value)
         ELSE IsInf(r.value) /\ r.value.s = a.value.s * b.value.s
    ELSE /\ IsFinite(r.value)
         /\ Val(r.value) * (Val(b.value) * a.value.d)
              = (Val(a.value) * b.value.d) * r.value.d

Derived(op) == {k \in DOMAIN store : store[k].op = op}

Lhs(k) == store[store[k].lhs]

Rhs(k) == store[store[k].rhs]

CloseCalls == Cardinality({k \in DOMAIN events : events[k][1] = "dlclose"})

Calls == {k \in DOMAIN events : events[k][1] = "call"}

\* The six steps of a complete run, in order.
FullOrder ==
    << Event("dlopen", "", <<>>),
       Event("dlsym", "GetPluginName", <<>>),
       Event("dlsym", "PerformAddition", <<>>),
       Event("call", "GetPluginName", <<>>),
       Event("call", "PerformAddition", <<10, 25>>),
       Event("dlclose", "", <<>>) >>

IsPrefix(s, t) == Len(s) <= Len(t) /\ \A k \in DOMAIN s : s[k] = t[k]

-----------------------------------------------------------------------------
(* Properties *)

\* C1 (as stated): every return of main after a successful load has released
\* the handle exactly once; no return leaves the handle open, none closes twice.
C1_HandleReleasedOnEveryExit ==
    /\ CloseCalls <= 1
    /\ (pc = "exit" /\ pluginHandle # NULL) => (CloseCalls = 1 /\ ~handleOpen)

\* C1 (amended): every return of main after a successful load has called the
\* release primitive on the handle exactly once (GetPluginName missing,
\* PerformAddition missing, success); the handle is closed at the return
\* whenever that call succeeded, and is left open only when the release
\* itself reported failure.
C1_ReleaseCalledOnceOnEveryExit ==
    /\ CloseCalls <= 1
    /\ (pc = "exit" /\ pluginHandle # NULL) =>
          /\ CloseCalls = 1
          /\ events[Len(events)] = Event("dlclose", "", <<>>)
          /\ closeWorks => ~handleOpen
          /\ handleOpen => ~closeWorks

C1_Witness ==
    /\ pc = "exit"
    /\ pluginHandle # NULL
    /\ getPluginName # NULL
    /\ performAddition = NULL
    /\ CloseCalls = 1
    /\ ~handleOpen

\* C2: a + b and a - b are accepted only for operands whose dimension vectors
\* are equal on every axis; the result then has that dimension vector and the
\* scalar a.value + b.value (resp. a.value - b.value); operands whose
\* dimensions differ on some axis are rejected.
C2_AddSubRequireEqualDimension ==
    /\ \A k \in Derived("+") \cup Derived("-") :
          /\ DimEqual(Lhs(k).unit, Rhs(k).unit)
          /\ store[k].unit = Lhs(k).unit
          /\ BothFinite(Lhs(k), Rhs(k)) =>
                IF store[k].op = "+" THEN ValueIsSum(store[k], Lhs(k), Rhs(k))
                ELSE ValueIsDifference(store[k], Lhs(k), Rhs(k))
    /\ \A i, j \in DOMAIN store :
          ~DimEqual(store[i].unit, store[j].unit) =>
             ~Viable("+", store[i], store[j]) /\ ~Viable("-", store[i], store[j])
    /\ diag.op \in {"+", "-"} =>
          /\ ~Viable(diag.op, store[diag.lhs], store[diag.rhs])
          /\ \A k \in Derived(diag.op) :
                store[k].lhs # diag.lhs \/ store[k].rhs # diag.rhs

C2_Witness ==
    \E k \in Derived("+"), l \in Derived("-") :
        /\ Lhs(k).unit = Meter /\ Rhs(k).unit = Meter /\ store[k].unit = Meter
        /\ Lhs(k).value = Lit(10, 1) /\ Rhs(k).value = Lit(10, 1)
        /\ store[k].value = Lit(20, 1)
        /\ store[l].lhs = k /\ Rhs(l).value = Lit(10, 1)
        /\ store[l].value = Lit(10, 1)

\* C3: a * b is always defined; its dimension vector is the per-axis sum of
\* the operands' exponents and its scalar a.value * b.value; Meter * Meter is
\* exactly Area and Kilogram * Acceleration exactly Force.
C3_MulDimensionIsSum ==
    /\ \A i, j \in DOMAIN store : Viable("*", store[i], store[j])
    /\ \A k \in Derived("*") :
          /\ \A ax \in Axes : IsSum(store[k].unit[ax], Lhs(k).unit[ax], Rhs(k).unit[ax])
          /\ BothFinite(Lhs(k), Rhs(k)) => ValueIsProduct(store[k], Lhs(k), Rhs(k))
          /\ (Lhs(k).unit = Meter /\ Rhs(k).unit = Meter) => store[k].unit = Area
          /\ (Lhs(k).unit = Kilogram /\ Rhs(k).unit = Acceleration) => store[k].unit = Force

C3_Witness ==
    \E k \in Derived("*") :
        /\ Lhs(k).unit = Kilogram /\ Rhs(k).unit = Acceleration
        /\ store[k].unit = Force
        /\ store[k].value = Lit(21, 1)

\* C4: a / b never dimension-fails; its dimension vector is the per-axis
\* difference (a minus b) and its scalar a.value / b.value; Meter / Second is
\* exactly Velocity and a / a is exactly Dimensionless for every a.
C4_DivDimensionIsDifference ==
    /\ \A i, j \in DOMAIN store : Viable("/", store[i], store[j])
    /\ \A k \in Derived("/") :
          /\ \A ax \in Axes :
                IsDifference(store[k].unit[ax], Lhs(k).unit[ax], Rhs(k).unit[ax])
          /\ BothFinite(Lhs(k), Rhs(k)) => ValueIsQuotient(store[k], Lhs(k), Rhs(k))
          /\ (Lhs(k).unit = Meter /\ Rhs(k).unit = Second) => store[k].unit = Velocity
          /\ store[k].lhs = store[k].rhs => store[k].unit = Dimensionless

C4_Witness ==
    \E k \in Derived("/") :
        /\ Lhs(k).unit = Meter /\ Rhs(k).unit = Second
        /\ Lhs(k).value = Lit(10, 1) /\ Rhs(k).value = Lit(2, 1)
        /\ store[k].unit = Velocity
        /\ store[k].value = Lit(5, 1)

\* C5: every dimension vector that can be produced, by constructing a Unit
\* directly or by * and /, has each exponent in lowest terms with a positive
\* denominator, so two vectors are the same type exactly when their exponents
\* are mathematically equal.
C5_CanonicalForm ==
    /\ \A k \in DOMAIN store : \A ax \in Axes : Canonical(store[k].unit[ax])
    /\ \A k, l \in DOMAIN store :
          DimEqual(store[k].unit, store[l].unit) <=> store[k].unit = store[l].unit

\* C6: a comparison (a == b, a < b) of two quantities whose dimension vectors
\* are equal is accepted; only a comparison of differing dimensions is rejected.
C6_ComparisonAcceptedOnEqualDimension ==
    diag.op \in ComparisonOps =>
        ~DimEqual(store[diag.lhs].unit, store[diag.rhs].unit)

\* C7: for every quantity a and every Dimensionless u, the type of a * u is
\* the type of a, and its scalar is a.value * u.value.
C7_IdentityLaw ==
    \A k \in Derived("*") :
        Rhs(k).unit = Dimensionless =>
            /\ store[k].unit = Lhs(k).unit
            /\ BothFinite(Lhs(k), Rhs(k)) => ValueIsProduct(store[k], Lhs(k), Rhs(k))

\* C8: the loader's steps happen in the order dlopen, dlsym GetPluginName,
\* dlsym PerformAddition, call GetPluginName, call PerformAddition(10, 25),
\* dlclose; a plugin function is called only while the handle is open and
\* after both symbols resolved non-null; if a symbol is missing, none is called.
C8_LoaderOrder ==
    /\ IsPrefix(SelectSeq(events, LAMBDA e : e[1] # "dlclose"), FullOrder)
    /\ \A k \in DOMAIN events : events[k][1] = "dlclose" => k = Len(events)
    /\ \A k \in Calls :
          /\ pluginHandle # NULL /\ getPluginName # NULL /\ performAddition # NULL
          /\ \A m \in 1..(k - 1) : events[m][1] # "dlclose"
          /\ \E m \in 1..(k - 1) : events[m] = Event("dlsym", "GetPluginName", <<>>)
          /\ \E m \in 1..(k - 1) : events[m] = Event("dlsym", "PerformAddition", <<>>)
    /\ pc \in {"have_both", "named"} =>
          handleOpen /\ getPluginName # NULL /\ performAddition # NULL
    /\ (pc = "exit" /\ ~(Symbols \subseteq exports)) => Calls = {}

C8_Witness ==
    /\ pc = "exit"
    /\ events = FullOrder
    /\ result = 35

\* C10: the exit status is 0 iff the library loaded and both symbols resolved;
\* it is 1 when the load fails (then nothing is resolved, called or released)
\* or when a symbol is missing; a failing final release only warns and the
\* status is still 0.
C10_ExitStatus ==
    pc = "exit" =>
        /\ exitStatus \in {0, 1}
        /\ exitStatus = 0 <=> (libLoadable /\ Symbols \subseteq exports)
        /\ exitStatus = 0 <=>
              (pluginHandle # NULL /\ getPluginName # NULL /\ performAddition # NULL)
        /\ ~libLoadable =>
              /\ exitStatus = 1
              /\ events = <<Event("dlopen", "", <<>>)>>
              /\ pluginHandle = NULL /\ getPluginName = NULL /\ performAddition = NULL
        /\ (libLoadable /\ Symbols \subseteq exports /\ ~closeWorks) =>
              /\ exitStatus = 0
              /\ cerr = <<"Warning: Could not close plugin library">>

C10_Witness ==
    /\ pc = "exit"
    /\ exitStatus = 0
    /\ ~closeWorks
    /\ handleOpen
    /\ cerr = <<"Warning: Could not close plugin library">>

\* C9: arithmetic never mutates a quantity: every quantity that exists keeps
\* its scalar and its dimension vector across every operation, the result is a
\* new quantity, and its dimension depends only on the operands' dimensions.
C9_OperandsUnchanged ==
    /\ [][ /\ Len(store') >= Len(store)
           /\ \A i \in DOMAIN store : store'[i] = store[i] ]_vars
    /\ [](\A k, l \in DOMAIN store :
            ( /\ store[k].op = store[l].op
              /\ store[k].op \in DeclaredOperators
              /\ Lhs(k).unit = Lhs(l).unit
              /\ Rhs(k).unit = Rhs(l).unit ) => store[k].unit = store[l].unit)

C9_Witness ==
    \E k, l \in DOMAIN store :
        /\ k # l
        /\ store[k].op = "*" /\ store[l].op = "*"
        /\ store[l].lhs = k
        /\ Lhs(k).op = "ctor" /\ Lhs(k).value = Lit(10, 1)

====
